---- MODULE Spec2Model ----
(***************************************************************************)
(* docker-mdns-publisher: the LocalHostWatcher daemon of                   *)
(* dockersock_watcher.py.  It enumerates the running containers that carry *)
(* an mdns.publish label, then consumes the docker event stream, and       *)
(* registers / unregisters zeroconf ServiceInfo records.                   *)
(*                                                                         *)
(* Strings that the code splits are modelled by the result of the split:   *)
(*   - a host name is the sequence of its dot separated labels, a label is *)
(*     its sequence of characters ("foo.local." = <<foo, local, <<>> >>);  *)
(*   - an entry of mdns.publish is its host name and the sequence of the   *)
(*     colon separated port texts that follow it;                          *)
(*   - an entry of mdns.txt is the sequence of its '=' separated parts.    *)
(* Configuration.log_level is the default "INFO" (line 61), so the DEBUG   *)
(* branch of process_container (lines 233-235) is not taken.               *)
(***************************************************************************)
EXTENDS Integers, Sequences, FiniteSets, TLC

(* ------------------------------ bounds -------------------------------- *)

\* number of events the docker daemon emits during one run of the model
MaxEvents == 3

\* the container ids of the model's docker daemon
ContainerIds == {"c1", "c2"}

(* ------------------------- characters and labels ---------------------- *)

Letters == {"a", "b", "c", "f", "g", "l", "o"}
Digits == {"0", "1", "2", "3", "4", "5", "6", "7", "8", "9"}

\* characters the class [A-Z\d\-\_] of is_valid_hostname accepts (IGNORECASE)
AllowedChars == Letters \cup Digits \cup {"-", "_"}

\* "ouml" stands for the one character o-umlaut, the only non ASCII character
AsciiChars == AllowedChars \cup {" ", "x", "n", "r", "+", "="}

Last(s) == s[Len(s)]

Range(s) == {s[i] : i \in 1..Len(s)}

\* one dot separated label of a host name
L_a == <<"a">>
L_b == <<"b">>
L_foo == <<"f", "o", "o">>
L_foo1 == <<"f", "o", "o", " ", "1">>
L_ufoo == <<"ouml", "f", "o", "o">>
L_local == <<"l", "o", "c", "a", "l">>
L_global == <<"g", "l", "o", "b", "a", "l">>
L_empty == << >>

\* host names as the user writes them in the label
H_a == <<L_a, L_local>>
H_adot == <<L_a, L_local, L_empty>>
H_b == <<L_b, L_local>>
H_foo1 == <<L_foo1, L_local>>
H_ufoo == <<L_ufoo, L_local>>
H_global == <<L_foo, L_global, L_empty>>
H_dotdot == <<L_a, L_empty, L_local>>

(* ------------------------------ utils.py ------------------------------ *)

well_known_port_name ==
    [p \in {80, 443, 515, 631, 9100, 1883} |->
        CASE p = 80 -> "_http._tcp"
          [] p = 443 -> "_http._tcp"
          [] p = 515 -> "_printer._tcp"
          [] p = 631 -> "_ipp._tcp"
          [] p = 9100 -> "_pdl-datastream._tcp"
          [] p = 1883 -> "_mqtt._tcp"]

(* ------------------------------- mkinfo ------------------------------- *)

\* the regular expression (?!-)[A-Z\d\-\_]{1,63}(?<!-)$ matched against x
allowed_match(x) ==
    /\ Len(x) >= 1
    /\ Len(x) <= 63
    /\ \A i \in 1..Len(x) : x[i] \in AllowedChars
    /\ x[1] # "-"
    /\ Last(x) # "-"

RECURSIVE SumLen(_)
SumLen(h) == IF h = << >> THEN 0 ELSE Len(h[1]) + SumLen(Tail(h))

\* len() of the dotted string whose split(".") is h
StrLen(h) == SumLen(h) + (Len(h) - 1)

RECURSIVE rstrip_dot(_)
\* hostname.rstrip("."): drops every trailing empty label
rstrip_dot(h) ==
    IF Len(h) > 1 /\ Last(h) = << >>
    THEN rstrip_dot(SubSeq(h, 1, Len(h) - 1))
    ELSE h

is_valid_hostname(hostname) ==
    IF StrLen(hostname) > 255
    THEN FALSE
    ELSE LET h == rstrip_dot(hostname)
         IN  \A i \in 1..Len(h) : allowed_match(h[i])

\* cname.endswith(".")
EndsWithDot(cname) == Len(cname) >= 2 /\ Last(cname) = << >>

\* cname.endswith(".local.")
EndsWithLocal(cname) ==
    /\ Len(cname) >= 3
    /\ Last(cname) = << >>
    /\ cname[Len(cname) - 1] = L_local

\* the punycode form of one label (ToASCII of the idna codec)
Punycode(l) ==
    IF \A i \in 1..Len(l) : l[i] \in AsciiChars
    THEN l
    ELSE IF l = L_ufoo
         THEN <<"x", "n", "-", "-", "f", "o", "o", "-", "r", "n", "a">>
         ELSE <<"x", "n", "-", "-">> \o l

\* cname.encode("idna") raises UnicodeError for an empty or too long label,
\* the empty label after a trailing dot excepted
IdnaRaises(cname) ==
    \E i \in 1..Len(cname) :
        /\ ~(i = Len(cname) /\ cname[i] = << >> /\ Len(cname) > 1)
        /\ (Len(Punycode(cname[i])) = 0 \/ Len(Punycode(cname[i])) >= 64)

IdnaEncode(cname) == [i \in 1..Len(cname) |-> Punycode(cname[i])]

\* mkinfo: the exception it raises ("none": it returns) and the ServiceInfo
mkinfo(cname0, port, service_type, props) ==
    LET cname == IF EndsWithDot(cname0) THEN cname0 ELSE Append(cname0, << >>)
    IN  IF IdnaRaises(cname)
        THEN [exc |-> "UnicodeError", info |-> << >>]
        ELSE IF ~is_valid_hostname(IdnaEncode(cname))
        THEN [exc |-> "IgnoredError", info |-> << >>]
        ELSE IF ~EndsWithLocal(cname)
        THEN [exc |-> "IgnoredError", info |-> << >>]
        ELSE IF service_type = "None" /\ port \notin DOMAIN well_known_port_name
        THEN [exc |-> "IgnoredError", info |-> << >>]
        ELSE LET st == IF service_type = "None"
                       THEN well_known_port_name[port]
                       ELSE service_type
                 local == SubSeq(cname, 1, Len(cname) - 2)
             IN  [exc |-> "none",
                  info |-> [type |-> st,
                            name |-> <<local, st>>,
                            port |-> port,
                            server |-> IdnaEncode(cname),
                            properties |-> props]]

(* --------------------------- container labels ------------------------- *)

DigitVal(c) ==
    CASE c = "0" -> 0 [] c = "1" -> 1 [] c = "2" -> 2 [] c = "3" -> 3
      [] c = "4" -> 4 [] c = "5" -> 5 [] c = "6" -> 6 [] c = "7" -> 7
      [] c = "8" -> 8 [] c = "9" -> 9

RECURSIVE DigitsVal(_, _)
DigitsVal(s, acc) ==
    IF s = << >> THEN acc ELSE DigitsVal(Tail(s), 10 * acc + DigitVal(s[1]))

\* int(port): an optional sign and decimal digits; anything else raises
\* ValueError
ParseInt(s) ==
    LET signed == Len(s) >= 1 /\ s[1] \in {"+", "-"}
        digits == IF signed THEN Tail(s) ELSE s
    IN  IF Len(digits) >= 1 /\ \A i \in 1..Len(digits) : digits[i] \in Digits
        THEN [ok |-> TRUE,
              val |-> IF signed /\ s[1] = "-"
                      THEN 0 - DigitsVal(digits, 0)
                      ELSE DigitsVal(digits, 0)]
        ELSE [ok |-> FALSE, val |-> 0]

\* t.strip() is empty: the entry has no '=' and only blanks
IsBlank(t) == Len(t) = 1 /\ \A i \in 1..Len(t[1]) : t[1][i] = " "

RECURSIVE make_list(_)
\* the list a of make_dict: one tuple per non blank entry
make_list(s) ==
    IF s = << >>
    THEN << >>
    ELSE LET t == s[1]
         IN  IF IsBlank(t)
             THEN make_list(Tail(s))
             ELSE IF Len(t) >= 2
                  THEN <<t>> \o make_list(Tail(s))
                  ELSE << <<t[1], << >> >> >> \o make_list(Tail(s))

\* make_dict: dict(a) raises ValueError unless every tuple is a pair; a later
\* pair overwrites an earlier one with the same key
make_dict(s) ==
    LET a == make_list(s)
    IN  IF \E i \in 1..Len(a) : Len(a[i]) # 2
        THEN [exc |-> "ValueError", dict |-> << >>]
        ELSE [exc |-> "none",
              dict |-> [k \in {a[i][1] : i \in 1..Len(a)} |->
                          LET j == CHOOSE j \in 1..Len(a) :
                                      /\ a[j][1] = k
                                      /\ \A m \in (j + 1)..Len(a) : a[m][1] # k
                          IN  a[j][2]]]

\* container.labels.get(key, default)
LabelGet(lbls, key, default) == IF key \in DOMAIN lbls THEN lbls[key] ELSE default

Entry(h, p) == [host |-> h, ports |-> p]

P_1883 == <<"1", "8", "8", "3">>
P_6789 == <<"6", "7", "8", "9">>
P_x == <<"x">>
P_90 == <<"9", "0">>
P_0 == <<"0">>

T_kv == <<"f">>
T_flag == <<"g">>

Lbl(pub) == ("mdns.publish" :> pub)

\* the label sets a container of the model may carry
LabelChoices ==
    { << >>,
      Lbl(<<Entry(H_a, << >>)>>),
      Lbl(<<Entry(H_adot, <<P_1883>>)>>),
      Lbl(<<Entry(H_a, << >>), Entry(H_b, << >>)>>),
      Lbl(<<Entry(H_foo1, << >>), Entry(H_b, << >>)>>),
      Lbl(<<Entry(H_global, << >>), Entry(H_b, << >>)>>),
      Lbl(<<Entry(H_a, <<P_6789>>), Entry(H_b, << >>)>>),
      Lbl(<<Entry(H_a, <<P_6789>>)>>) @@ ("mdns.servicetype" :> "_http._tcp"),
      Lbl(<<Entry(H_a, <<P_x>>), Entry(H_b, << >>)>>),
      Lbl(<<Entry(H_b, <<P_1883, P_90>>)>>),
      Lbl(<<Entry(H_ufoo, << >>)>>)
         @@ ("mdns.txt" :> << <<T_kv, <<"a">> >>, <<T_flag>>, << <<" ">> >> >>),
      Lbl(<<Entry(H_b, << >>)>>)
         @@ ("mdns.txt" :> << <<T_kv, <<"a">>, <<"b">> >> >>),
      Lbl(<<Entry(H_dotdot, << >>)>>),
      Lbl(<<Entry(H_a, <<P_0>>)>>) @@ ("mdns.servicetype" :> "_http._tcp"),
      ("mdns.txt" :> << <<T_kv, <<"a">>, <<"b">> >> >>) }

\* the second container carries one of a few of them
FewLabelChoices ==
    { << >>,
      Lbl(<<Entry(H_a, << >>)>>),
      Lbl(<<Entry(H_a, << >>), Entry(H_b, << >>)>>),
      Lbl(<<Entry(H_a, <<P_x>>), Entry(H_b, << >>)>>) }

(* ------------------------- the zeroconf announcer --------------------- *)

\* register_service(info, allow_name_change=False) raises a zeroconf.Error
\* when the service name is already registered
NameCollision(registered, info) == \E r \in registered : r.name = info.name

\* unregister_service(info) raises when the announcer fails (fault) or does
\* not know the handle
UnregisterRaises(registered, info, fault) == fault \/ info \notin registered

(* ----------------------- publish / process_container ------------------ *)

\* the watcher's state a handler works on, and what the handler did:
\*   reg_calls / unreg_calls: the arguments of register_service and
\*   unregister_service, in call order
Ctx(st, exc) == [st EXCEPT !.exc = exc]

\* register_service called with allow_name_change=True: a colliding name is
\* registered all the same
publish_allow_change(st, cname, port, servicetype, props) ==
    LET m == mkinfo(cname, port, servicetype, props)
        info == [id |-> st.nextId] @@ m.info
    IN  IF m.exc # "none"
        THEN [st |-> Ctx(st, m.exc), info |-> << >>]
        ELSE [st |-> [st EXCEPT !.reg_calls = Append(@, info),
                                !.registered = @ \cup {info},
                                !.nextId = @ + 1],
              info |-> info]

\* publish: mkinfo, then register_service; a zeroconf.Error becomes an
\* IgnoredError, every other exception propagates
publish(st, cname, port, servicetype, props) ==
    LET m == mkinfo(cname, port, servicetype, props)
        info == [id |-> st.nextId] @@ m.info
    IN  IF m.exc # "none"
        THEN [st |-> Ctx(st, m.exc), info |-> << >>]
        ELSE IF NameCollision(st.registered, info)
        THEN [st |-> [Ctx(st, "IgnoredError") EXCEPT
                         !.reg_calls = Append(@, info)],
              info |-> << >>]
        ELSE [st |-> [st EXCEPT !.reg_calls = Append(@, info),
                                !.registered = @ \cup {info},
                                !.nextId = @ + 1],
              info |-> info]

\* the guard of line 247 left out
AlreadyRegistered_never(info_store, container_id) == FALSE

\* line 247: the guard against a second registration for a container id
AlreadyRegistered(info_store, container_id) == container_id \in DOMAIN info_store

\* info_store[container_id] read where it should be popped
Pop_keep(info_store, container_id) == info_store

\* info_store.pop(container_id), the key being present
Pop(info_store, container_id) ==
    [c \in DOMAIN info_store \ {container_id} |-> info_store[c]]

\* the entry popped, unpublish never called
Die_pop_only(st, container_id, fault) ==
    IF container_id \notin DOMAIN st.info_store
    THEN st
    ELSE [st EXCEPT !.info_store = Pop(@, container_id)]

\* lines 254-260: unpublish(info_store.pop(container_id)), every exception
\* swallowed
Die(st, container_id, fault) ==
    IF container_id \notin DOMAIN st.info_store
    THEN st
    ELSE LET info == st.info_store[container_id]
             popped == [st EXCEPT !.info_store = Pop(@, container_id),
                                  !.unreg_calls = Append(@, info)]
         IN  IF UnregisterRaises(st.registered, info, fault)
             THEN popped
             ELSE [popped EXCEPT !.registered = @ \ {info}]

\* the container id stored before register_service has returned success:
\* a failed register leaves the refused handle in info_store
Start_store_first(st, container_id, cname, port, service_type, txt) ==
    IF AlreadyRegistered(st.info_store, container_id)
    THEN Ctx(st, "IgnoredError")
    ELSE LET r == publish(st, cname, port, service_type, txt)
         IN  IF r.st.exc # "none" /\ r.st.reg_calls = st.reg_calls
             THEN r.st
             ELSE [r.st EXCEPT !.info_store =
                      (container_id :> Last(r.st.reg_calls)) @@ @]

\* lines 246-252
Start(st, container_id, cname, port, service_type, txt) ==
    IF AlreadyRegistered(st.info_store, container_id)
    THEN Ctx(st, "IgnoredError")
    ELSE LET r == publish(st, cname, port, service_type, txt)
         IN  IF r.st.exc # "none"
             THEN r.st
             ELSE [r.st EXCEPT !.info_store = (container_id :> r.info) @@ @]

\* lines 240-243: the port of one entry, or the ValueError of the unpacking
\* and of int()
EntryPort(entry) ==
    IF Len(entry.ports) = 0
    THEN [ok |-> TRUE, val |-> 80]
    ELSE IF Len(entry.ports) # 1
    THEN [ok |-> FALSE, val |-> 0]
    ELSE ParseInt(entry.ports[1])

RECURSIVE HostsLoop(_, _, _, _, _, _, _)
\* lines 238-260: the loop over hosts.split(','), left by the first exception
HostsLoop(st, container_id, hosts, action, service_type, txt, fault) ==
    IF hosts = << >>
    THEN st
    ELSE LET entry == hosts[1]
             port == EntryPort(entry)
             next == IF action = "start"
                     THEN Start(st, container_id, entry.host, port.val,
                                service_type, txt)
                     ELSE IF action = "die"
                     THEN Die(st, container_id, fault)
                     ELSE st
         IN  IF ~port.ok
             THEN Ctx(st, "ValueError")
             ELSE IF next.exc # "none"
             THEN next
             ELSE HostsLoop(next, container_id, Tail(hosts), action,
                            service_type, txt, fault)

\* process_container (lines 209-260)
process_container(st, container_id, lbls, action, fault) ==
    LET service_type == LabelGet(lbls, "mdns.servicetype", "None")
        txt == make_dict(LabelGet(lbls, "mdns.txt", << << << >> >> >>))
    IN  IF txt.exc # "none"
        THEN Ctx(st, txt.exc)
        ELSE IF "mdns.publish" \notin DOMAIN lbls
        THEN st
        ELSE HostsLoop(st, container_id, lbls["mdns.publish"], action,
                       service_type, txt.dict, fault)

(* ------------------------------- state -------------------------------- *)

VARIABLES
    pc,          \* where __main__ is: "init", "entered" (in the with block),
                 \* "opened" (run() holds the event stream), "enum", "stream",
                 \* "terminated"
    cstate,      \* docker: container id -> "running", "exited" or "removed"
    labels,      \* docker: container id -> the container's labels
    events,      \* the event stream: emitted events run() has not consumed
    emitted,     \* number of events docker has emitted
    containers,  \* run(): the listed containers not yet processed
    info_store,  \* LocalHostWatcher.info_store: container id -> ServiceInfo
    registered,  \* the ServiceInfos the announcer holds registered
    nextId,      \* identity of the next ServiceInfo object
    zeroconf,    \* LocalHostWatcher.zeroconf: "None", "open" or "deleted"
    last,        \* what the most recent process_container / process_event did
    adapters,    \* Configuration.adapters; << >> when ADAPTERS is not set
    zc_opened,   \* number of Zeroconf instances __enter__ has constructed
    zc_closed,   \* number of Zeroconf instances that have been closed
    exit_exc,    \* the exception the most recent __exit__ raised, or "none"
    critical,    \* the critical log lines of __main__ (line 299)
    result       \* what make_dict returned, where it is applied on its own

\* the variables of the watcher's set up and tear down
life == <<adapters, zc_opened, zc_closed, exit_exc, critical, result>>

vars == <<pc, cstate, labels, events, emitted, containers, info_store,
          registered, nextId, zeroconf, last, adapters, zc_opened, zc_closed,
          exit_exc, critical, result>>

NoResult == [exc |-> "none", dict |-> << >>]

NoOp == [op |-> "none", cid |-> "none", action |-> "none", ran |-> FALSE,
         exc |-> "none", raised |-> "none", logged |-> << >>,
         reg_calls |-> << >>, unreg_calls |-> << >>, fault |-> FALSE,
         pre_store |-> << >>, pre_registered |-> {},
         post_registered |-> {}, lookup |-> FALSE,
         prev |-> [ran |-> FALSE, cid |-> "none", action |-> "none",
                   exc |-> "none", calls |-> 0]]

\* what the next handler remembers of the one before it
Summary(l) == [ran |-> l.ran, cid |-> l.cid, action |-> l.action,
               exc |-> l.exc, calls |-> Len(l.reg_calls) + Len(l.unreg_calls)]

\* __init__ (lines 112-121) with ADAPTERS=lo, as in the tests' setUpClass;
\* docker holds any containers, events() has not been called
Init ==
    /\ pc = "init"
    /\ cstate \in [ContainerIds -> {"running", "exited"}]
    /\ labels \in [ContainerIds -> LabelChoices]
    /\ labels["c2"] \in FewLabelChoices
    /\ events = << >>
    /\ emitted = 0
    /\ containers = << >>
    /\ info_store = << >>
    /\ registered = {}
    /\ nextId = 0
    /\ zeroconf = "None"
    /\ last = NoOp
    /\ adapters = <<"lo">>
    /\ zc_opened = 0
    /\ zc_closed = 0
    /\ exit_exc = "none"
    /\ critical = << >>
    /\ result = NoResult

\* the handler context built from the watcher's state
Before == [info_store |-> info_store, registered |-> registered,
           nextId |-> nextId, exc |-> "none",
           reg_calls |-> << >>, unreg_calls |-> << >>]

\* close() never called
Close_keep(reg) == reg

\* zeroconf.close() (line 107) withdraws every record the announcer holds
\* ("deregistering all registered hostnames", line 106)
Close(reg) == {}

\* __exit__ (lines 100-110): hasattr holds for the None of __init__ as well,
\* so None.close() raises AttributeError; an open announcer is closed and the
\* attribute deleted; with the attribute deleted nothing is done
ExitBody(reg) ==
    IF zeroconf = "open"
    THEN /\ zeroconf' = "deleted"
         /\ zc_closed' = zc_closed + 1
         /\ registered' = Close(reg)
         /\ exit_exc' = "none"
    ELSE /\ exit_exc' = IF zeroconf = "None" THEN "AttributeError" ELSE "none"
         /\ registered' = reg
         /\ UNCHANGED <<zeroconf, zc_closed>>

\* the with block of __main__ (lines 292-299) is left: __exit__ runs and
\* suppresses the exception; one it raises itself is logged as critical
Exit(reg) ==
    /\ ExitBody(reg)
    /\ pc' = "terminated"
    /\ critical' = IF zeroconf = "None"
                   THEN Append(critical, "AttributeError")
                   ELSE critical

\* the handler's writes to the watcher; an exception that leaves run() unwinds
\* through __exit__
Commit(st, raised) ==
    /\ info_store' = st.info_store
    /\ nextId' = st.nextId
    /\ IF raised = "none"
       THEN /\ registered' = st.registered
            /\ UNCHANGED <<pc, zeroconf, zc_closed, exit_exc, critical>>
       ELSE Exit(st.registered)

\* netifaces.interfaces(): the interfaces of the host
Interfaces == <<"lo", "eth0">>

\* every adapter name passes for an interface
AdapterExists_any(a) == TRUE

\* netifaces.ifaddresses(a) does not raise ValueError (lines 86-89)
AdapterExists(a) == \E i \in 1..Len(Interfaces) : Interfaces[i] = a

\* __enter__ (lines 73-98): for each adapter in turn, the check of its name
\* and then, inside the same loop, a new Zeroconf instance (lines 91-96); a
\* FatalError leaves the with statement without __exit__ and is logged by
\* __main__ (line 299)
Enter ==
    /\ pc = "init"
    /\ LET use == IF adapters = << >> THEN Interfaces ELSE adapters
           bad == {i \in 1..Len(use) : ~AdapterExists(use[i])}
       IN  IF bad = {}
           THEN /\ pc' = "entered"
                /\ zc_opened' = zc_opened + Len(use)
                /\ zeroconf' = "open"
                /\ critical' = critical
           ELSE LET k == CHOOSE i \in bad : \A j \in bad : i <= j
                IN  /\ pc' = "terminated"
                    /\ zc_opened' = zc_opened + (k - 1)
                    /\ zeroconf' = IF k > 1 THEN "open" ELSE zeroconf
                    /\ critical' = Append(critical, "FatalError")
    /\ UNCHANGED <<cstate, labels, events, emitted, containers, info_store,
                   registered, nextId, last, adapters, zc_closed, exit_exc,
                   result>>

\* run() line 268: the event stream is requested
OpenEvents ==
    /\ pc = "entered"
    /\ pc' = "opened"
    /\ events' = << >>
    /\ UNCHANGED <<cstate, labels, emitted, containers, info_store,
                   registered, nextId, zeroconf, last>>
    /\ UNCHANGED life

\* the containers list(filters={"label": "mdns.publish"}) returns
Listed == {c \in ContainerIds :
              cstate[c] = "running" /\ "mdns.publish" \in DOMAIN labels[c]}

\* run() line 271: the listing, in any order
List ==
    /\ pc = "opened"
    /\ \E order \in [1..Cardinality(Listed) -> Listed] :
          /\ \A i, j \in DOMAIN order : i # j => order[i] # order[j]
          /\ containers' = order
    /\ pc' = "enum"
    /\ UNCHANGED <<cstate, labels, events, emitted, info_store, registered,
                   nextId, zeroconf, last>>
    /\ UNCHANGED life

\* run() lines 272-273: process_container(container.id, container, "start")
\* for the next listed container, outside any try
EnumStep ==
    /\ pc = "enum"
    /\ containers # << >>
    /\ LET c == Head(containers)
           st == process_container(Before, c, labels[c], "start", FALSE)
       IN  /\ containers' = Tail(containers)
           /\ last' = [op |-> "enum", cid |-> c, action |-> "start",
                       ran |-> TRUE, exc |-> st.exc, raised |-> st.exc,
                       logged |-> << >>, reg_calls |-> st.reg_calls,
                       unreg_calls |-> st.unreg_calls, fault |-> FALSE,
                       pre_store |-> info_store,
                       pre_registered |-> registered,
                       post_registered |-> st.registered,
                       lookup |-> FALSE,
                       prev |-> Summary(last)]
           /\ Commit(st, st.exc)
    /\ UNCHANGED <<cstate, labels, events, emitted, adapters, zc_opened,
                   result>>

\* run() lines 277-278: the listing is exhausted, the stream is consumed
EnumDone ==
    /\ pc = "enum"
    /\ containers = << >>
    /\ pc' = "stream"
    /\ UNCHANGED <<cstate, labels, events, emitted, containers, info_store,
                   registered, nextId, zeroconf, last>>
    /\ UNCHANGED life

\* the test of the event's type left out
Relevant_any_type(event) == event.Action \in {"start", "die"}

\* line 197: the events process_event acts on
Relevant(event) ==
    event.Type = "container" /\ event.Action \in {"start", "die"}

\* dockerclient.containers.get(container_id) fails with the URLError of
\* lines 202-205 when the container has gone away
LookupFails(c) == cstate[c] = "removed"

\* lines 202-207: the exceptions process_event catches and logs
Caught(exc) == exc \in {"URLError", "IgnoredError"}

LogOf(exc) ==
    IF exc = "URLError" THEN <<"warning">>
    ELSE IF exc = "IgnoredError" THEN <<"error">>
    ELSE << >>

\* process_event (lines 195-207) on the next event of the stream
\* (run() lines 278-279)
StreamStep ==
    /\ pc = "stream"
    /\ events # << >>
    /\ \E fault \in BOOLEAN :
        LET event == Head(events)
            c == event.ID
            ran == Relevant(event) /\ ~LookupFails(c)
            st == IF ~Relevant(event)
                  THEN Before
                  ELSE IF LookupFails(c)
                  THEN Ctx(Before, "URLError")
                  ELSE process_container(Before, c, labels[c],
                                         event.Action, fault)
            raised == IF Caught(st.exc) THEN "none" ELSE st.exc
        IN  /\ fault => (ran /\ event.Action = "die" /\ st.unreg_calls # << >>)
            /\ events' = Tail(events)
            /\ last' = [op |-> "event", cid |-> c, action |-> event.Action,
                        ran |-> ran, exc |-> st.exc, raised |-> raised,
                        logged |-> LogOf(st.exc), reg_calls |-> st.reg_calls,
                        unreg_calls |-> st.unreg_calls, fault |-> fault,
                        pre_store |-> info_store,
                        pre_registered |-> registered,
                        post_registered |-> st.registered,
                        lookup |-> Relevant(event),
                        prev |-> Summary(last)]
            /\ Commit(st, raised)
    /\ UNCHANGED <<cstate, labels, emitted, containers, adapters, zc_opened,
                   result>>

\* handle_signals (lines 281-287): KeyboardInterrupt unwinds the with block
Interrupt ==
    /\ pc \in {"entered", "opened", "enum", "stream"}
    /\ Exit(registered)
    /\ UNCHANGED <<cstate, labels, events, emitted, containers, info_store,
                   nextId, last, adapters, zc_opened, result>>

(* ------------------------- the docker daemon -------------------------- *)

Subscribed == pc \in {"opened", "enum", "stream"}

Emit(type, action, c) ==
    /\ Subscribed
    /\ emitted < MaxEvents
    /\ emitted' = emitted + 1
    /\ events' = Append(events, [Type |-> type, Action |-> action, ID |-> c])

DockerStart(c) ==
    /\ cstate[c] = "exited"
    /\ cstate' = [cstate EXCEPT ![c] = "running"]
    /\ Emit("container", "start", c)
    /\ UNCHANGED <<pc, labels, containers, info_store, registered, nextId,
                   zeroconf, last>>
    /\ UNCHANGED life

DockerDie(c) ==
    /\ cstate[c] = "running"
    /\ cstate' = [cstate EXCEPT ![c] = "exited"]
    /\ Emit("container", "die", c)
    /\ UNCHANGED <<pc, labels, containers, info_store, registered, nextId,
                   zeroconf, last>>
    /\ UNCHANGED life

DockerRemove(c) ==
    /\ cstate[c] = "exited"
    /\ cstate' = [cstate EXCEPT ![c] = "removed"]
    /\ Emit("container", "destroy", c)
    /\ UNCHANGED <<pc, labels, containers, info_store, registered, nextId,
                   zeroconf, last>>
    /\ UNCHANGED life

Next ==
    \/ Enter
    \/ OpenEvents
    \/ List
    \/ EnumStep
    \/ EnumDone
    \/ StreamStep
    \/ Interrupt
    \/ \E c \in ContainerIds : DockerStart(c)
    \/ \E c \in ContainerIds : DockerDie(c)
    \/ \E c \in ContainerIds : DockerRemove(c)

Spec == Init /\ [][Next]_vars

\* the event stream is an input of run(): any container start or die event
\* may arrive on it, also one docker's own bookkeeping would not emit
Inject(action, c) ==
    /\ Emit("container", action, c)
    /\ UNCHANGED <<pc, cstate, labels, containers, info_store, registered,
                   nextId, zeroconf, last>>
    /\ UNCHANGED life

NextAnyEvents ==
    \/ Next
    \/ \E action \in {"start", "die"}, c \in ContainerIds : Inject(action, c)

SpecAnyEvents == Init /\ [][NextAnyEvents]_vars

\* the values of ADAPTERS: names of interfaces of the host, a name that is
\* none (test_adapters, line 24), and ADAPTERS not set
AdapterChoices ==
    { <<"lo">>, <<"lo", "eth0">>, <<"nonexistent">>, <<"lo", "nonexistent">>,
      << >> }

\* __init__ with any value of ADAPTERS
InitLife ==
    /\ pc = "init"
    /\ cstate \in [ContainerIds -> {"running", "exited"}]
    /\ labels \in [ContainerIds -> FewLabelChoices]
    /\ labels["c2"] = << >>
    /\ events = << >>
    /\ emitted = 0
    /\ containers = << >>
    /\ info_store = << >>
    /\ registered = {}
    /\ nextId = 0
    /\ zeroconf = "None"
    /\ last = NoOp
    /\ adapters \in AdapterChoices
    /\ zc_opened = 0
    /\ zc_closed = 0
    /\ exit_exc = "none"
    /\ critical = << >>
    /\ result = NoResult

\* __exit__(None, None, None) called on the watcher itself, as tearDownClass
\* does (mdns_unittest.py line 43), before __enter__ or after the with block
DirectExit ==
    /\ pc \in {"init", "terminated"}
    /\ ExitBody(registered)
    /\ UNCHANGED <<pc, cstate, labels, events, emitted, containers,
                   info_store, nextId, last, adapters, zc_opened, critical,
                   result>>

NextLife ==
    \/ Next
    \/ DirectExit

SpecLifecycle == InitLife /\ [][NextLife]_vars

\* type and action of events that arrive on the stream besides those of
\* DockerStart, DockerDie and DockerRemove
OtherEvents ==
    { <<"network", "start">>, <<"network", "die">>, <<"container", "stop">> }

\* __init__ as in Init, the second container carrying no labels
InitKinds ==
    /\ pc = "init"
    /\ cstate \in [ContainerIds -> {"running", "exited"}]
    /\ labels \in [ContainerIds -> FewLabelChoices]
    /\ labels["c2"] = << >>
    /\ events = << >>
    /\ emitted = 0
    /\ containers = << >>
    /\ info_store = << >>
    /\ registered = {}
    /\ nextId = 0
    /\ zeroconf = "None"
    /\ last = NoOp
    /\ adapters = <<"lo">>
    /\ zc_opened = 0
    /\ zc_closed = 0
    /\ exit_exc = "none"
    /\ critical = << >>
    /\ result = NoResult

\* an event of another type or action arrives on the stream
InjectKind(type, action, c) ==
    /\ Emit(type, action, c)
    /\ UNCHANGED <<pc, cstate, labels, containers, info_store, registered,
                   nextId, zeroconf, last>>
    /\ UNCHANGED life

NextKinds ==
    \/ Next
    \/ \E kind \in OtherEvents, c \in ContainerIds :
          InjectKind(kind[1], kind[2], c)

SpecKinds == InitKinds /\ [][NextKinds]_vars

\* run() with no signal arriving
NextNoSignal ==
    \/ Enter
    \/ OpenEvents
    \/ List
    \/ EnumStep
    \/ EnumDone
    \/ StreamStep
    \/ \E c \in ContainerIds : DockerStart(c)
    \/ \E c \in ContainerIds : DockerDie(c)
    \/ \E c \in ContainerIds : DockerRemove(c)

SpecNoSignal == Init /\ [][NextNoSignal]_vars

\* longest mdns.txt label, in entries
MaxTxt == 2

\* entries of an mdns.txt label: key, key=, key=a, blank, key=a=b
TxtEntries ==
    { <<T_kv>>, <<T_kv, << >> >>, <<T_kv, <<"a">> >>,
      <<T_flag>>, <<T_flag, << >> >>,
      << <<" ">> >>,
      <<T_kv, <<"a">>, <<"b">> >> }

TxtLabels == UNION {[1..n -> TxtEntries] : n \in 0..MaxTxt}

\* a container whose mdns.txt label is any of TxtLabels
InitTxt ==
    /\ pc = "txt"
    /\ cstate = [c \in ContainerIds |-> "running"]
    /\ \E s \in TxtLabels : labels = [c \in ContainerIds |-> ("mdns.txt" :> s)]
    /\ events = << >>
    /\ emitted = 0
    /\ containers = << >>
    /\ info_store = << >>
    /\ registered = {}
    /\ nextId = 0
    /\ zeroconf = "open"
    /\ last = NoOp
    /\ adapters = <<"lo">>
    /\ zc_opened = 1
    /\ zc_closed = 0
    /\ exit_exc = "none"
    /\ critical = << >>
    /\ result = NoResult

\* line 232: make_dict applied to the container's mdns.txt label
ParseTxt ==
    /\ pc = "txt"
    /\ pc' = "txt_done"
    /\ result' = make_dict(LabelGet(labels["c1"], "mdns.txt", << << << >> >> >>))
    /\ UNCHANGED <<cstate, labels, events, emitted, containers, info_store,
                   registered, nextId, zeroconf, last, adapters, zc_opened,
                   zc_closed, exit_exc, critical>>

SpecTxt == InitTxt /\ [][ParseTxt]_vars

TypeOK ==
    /\ pc \in {"init", "entered", "opened", "enum", "stream", "terminated",
              "txt", "txt_done"}
    /\ emitted \in 0..MaxEvents
    /\ zeroconf \in {"None", "open", "deleted"}

(* ------------------------------ properties ---------------------------- *)

\* this step is run() handing the next listed container to process_container
EnumHandled == pc = "enum" /\ containers # << >> /\ containers' = Tail(containers)

\* this step is run() handing the next event of the stream to process_event
EventHandled == pc = "stream" /\ events # << >> /\ events' = Tail(events)

\* this step ran process_container(c, ..., action)
Processed(c, action) ==
    /\ EnumHandled \/ EventHandled
    /\ last'.ran
    /\ last'.cid = c
    /\ last'.action = action

\* the most recent handler ran process_container(c, ..., action)
LastProcessed(c, action) == last.ran /\ last.cid = c /\ last.action = action

\* the entries of the container's mdns.publish label
Hosts(c) == LabelGet(labels[c], "mdns.publish", << >>)

\* the ServiceInfo mkinfo builds for entry i of the container's label
EntryInfo(c, i) ==
    mkinfo(Hosts(c)[i].host, EntryPort(Hosts(c)[i]).val,
           LabelGet(labels[c], "mdns.servicetype", "None"), << >>)

\* entry i of the container's label has well formed port text
EntryParses(c, i) == EntryPort(Hosts(c)[i]).ok

\* entry i of the container's label passes the validation of mkinfo
EntryValid(c, i) == EntryParses(c, i) /\ EntryInfo(c, i).exc = "none"

\* the container's mdns.txt label is one dict() accepts
TxtParses(c) ==
    make_dict(LabelGet(labels[c], "mdns.txt", << << << >> >> >>)).exc = "none"

\* C1: when start processing runs for a container id that already has an
\* entry in info_store, info_store is left as it is (same handle), no register
\* call is issued and exactly one IgnoredError is logged
C1_SecondStartIgnored ==
    [][\A c \in ContainerIds :
         (Processed(c, "start") /\ c \in DOMAIN info_store)
         => /\ info_store' = info_store
            /\ last'.reg_calls = << >>
            /\ last'.exc = "IgnoredError"
            /\ last'.logged = <<"error">>
            /\ last'.raised = "none"]_vars

\* a start event was processed for a container id that was in info_store
C1_Witness ==
    /\ last.op = "event"
    /\ last.ran
    /\ last.action = "start"
    /\ last.cid \in DOMAIN last.pre_store
    /\ last.cid \in DOMAIN info_store
    /\ pc = "stream"

\* C2: die processing that directly follows die processing of the same
\* container id raises nothing, changes neither info_store nor the announcer's
\* registered set, and issues no unregister call
C2_SecondDieNoOp ==
    [][\A c \in ContainerIds :
         (LastProcessed(c, "die") /\ Processed(c, "die"))
         => /\ last'.exc = "none"
            /\ last'.raised = "none"
            /\ info_store' = info_store
            /\ registered' = registered
            /\ last'.unreg_calls = << >>]_vars

\* die was processed for a container id right after a die for the same id
\* that had withdrawn its record
C2_Witness ==
    /\ last.ran
    /\ last.action = "die"
    /\ last.prev.ran
    /\ last.prev.action = "die"
    /\ last.prev.cid = last.cid
    /\ last.prev.calls = 1
    /\ last.exc = "none"
    /\ pc = "stream"

\* C3: once process_event has processed a die event for a container id that
\* had an entry in info_store, the id is no longer in info_store and the
\* stored handle has been passed to unregister
C3_DieEventWithdraws ==
    [][\A c \in ContainerIds :
         (EventHandled /\ Head(events).Type = "container"
            /\ Head(events).Action = "die" /\ Head(events).ID = c
            /\ c \in DOMAIN info_store)
         => /\ c \notin DOMAIN info_store'
            /\ last'.unreg_calls = <<info_store[c]>>]_vars

\* C4: for a container with a single valid name, die processing right after
\* a start processing that registered the name passes exactly the registered
\* handle to unregister and, the announcer accepting it, puts info_store and
\* the registered set back to what they were before the start; and start
\* processing of such a container registers whenever neither the id nor the
\* name is held
C4_StartDieRestores ==
    [][\A c \in ContainerIds :
         /\ (LastProcessed(c, "start") /\ last.exc = "none"
               /\ Len(Hosts(c)) = 1 /\ Processed(c, "die") /\ ~last'.fault)
            => /\ Len(last.reg_calls) = 1
               /\ last'.unreg_calls = last.reg_calls
               /\ last'.exc = "none"
               /\ info_store' = last.pre_store
               /\ registered' = last.pre_registered
         /\ (Processed(c, "start") /\ Len(Hosts(c)) = 1 /\ TxtParses(c)
               /\ EntryValid(c, 1)
               /\ c \notin DOMAIN info_store
               /\ \A r \in registered : r.name # EntryInfo(c, 1).info.name)
            => /\ last'.exc = "none"
               /\ Len(last'.reg_calls) = 1
               /\ c \in DOMAIN info_store'
               /\ info_store'[c] = last'.reg_calls[1]
               /\ registered' = registered \cup {info_store'[c]}
               /\ info_store'[c].name = EntryInfo(c, 1).info.name]_vars

\* a single name container was registered, withdrawn and registered again
C4_Witness ==
    /\ LastProcessed(last.cid, "start")
    /\ last.exc = "none"
    /\ Len(Hosts(last.cid)) = 1
    /\ last.cid \in DOMAIN info_store
    /\ info_store[last.cid].id >= 1
    /\ info_store[last.cid] \in registered
    /\ last.prev.ran
    /\ last.prev.action = "die"
    /\ last.prev.cid = last.cid
    /\ last.prev.calls = 1
    /\ last.pre_registered = {}

\* no entry of the container's label names a record the announcer holds
NoneHeld(c) ==
    \A i \in 1..Len(Hosts(c)) :
        EntryValid(c, i) =>
            \A r \in registered : r.name # EntryInfo(c, i).info.name

\* C5: start processing of a container whose label lists n >= 2 distinct
\* valid names passes every one of them to register and the announcer holds
\* all n; die processing of that container withdraws all of them
C5_AllNamesRegistered ==
    [][\A c \in ContainerIds :
         (/\ Len(Hosts(c)) >= 2
          /\ TxtParses(c)
          /\ \A i \in 1..Len(Hosts(c)) : EntryValid(c, i)
          /\ \A i, j \in 1..Len(Hosts(c)) :
                 i # j => EntryInfo(c, i).info.name # EntryInfo(c, j).info.name)
         => /\ (Processed(c, "start") /\ c \notin DOMAIN info_store
                  /\ NoneHeld(c))
               => /\ Len(last'.reg_calls) = Len(Hosts(c))
                  /\ \A i \in 1..Len(Hosts(c)) :
                        \E r \in registered' :
                            r.name = EntryInfo(c, i).info.name
                  /\ c \in DOMAIN info_store'
            /\ (Processed(c, "die") /\ ~last'.fault)
               => \A i \in 1..Len(Hosts(c)) :
                     \A r \in registered' :
                         r.name # EntryInfo(c, i).info.name]_vars

\* C6: in start processing, when an entry of the label fails the validation
\* of mkinfo, every other entry of the label that is valid is still passed
\* to register
C6_SiblingsStillAttempted ==
    [][\A c \in ContainerIds :
         (/\ Processed(c, "start")
          /\ c \notin DOMAIN info_store
          /\ TxtParses(c)
          /\ \A i \in 1..Len(Hosts(c)) : EntryParses(c, i)
          /\ \E i \in 1..Len(Hosts(c)) : ~EntryValid(c, i))
         => \A j \in 1..Len(Hosts(c)) :
               EntryValid(c, j) =>
                  \E k \in 1..Len(last'.reg_calls) :
                      last'.reg_calls[k].name = EntryInfo(c, j).info.name]_vars

\* C7: in the enumeration phase an IgnoredError of one listed container
\* leaves run() in the enumeration, going on with the rest of the listing
C7_EnumerationContinues ==
    [][(EnumHandled /\ last'.exc = "IgnoredError")
         => /\ pc' = "enum"
            /\ last'.raised = "none"]_vars

\* the Ignored conditions of a start or die event for container id c
IgnoredCondition(c, action) ==
    \/ LookupFails(c)
    \/ /\ action = "start"
       /\ TxtParses(c)
       /\ Hosts(c) # << >>
       /\ EntryParses(c, 1)
       /\ \/ c \in DOMAIN info_store
          \/ ~EntryValid(c, 1)
          \/ \E r \in registered : r.name = EntryInfo(c, 1).info.name

\* C8: in the streaming phase, processing a start or die event that hits an
\* Ignored condition logs, returns normally and leaves run() consuming the
\* stream
C8_StreamContinues ==
    [][\A c \in ContainerIds :
         (/\ EventHandled
          /\ Relevant(Head(events))
          /\ Head(events).ID = c
          /\ IgnoredCondition(c, Head(events).Action))
         => /\ last'.raised = "none"
            /\ last'.logged # << >>
            /\ pc' = "stream"]_vars

\* C9: processing a container whose label has an entry with malformed port
\* text raises nothing out of the handler, the daemon keeps running, and in
\* start processing the valid entries are still passed to register
C9_MalformedPortSkipped ==
    [][\A c \in ContainerIds : \A action \in {"start", "die"} :
         (/\ Processed(c, action)
          /\ TxtParses(c)
          /\ \E i \in 1..Len(Hosts(c)) : ~EntryParses(c, i))
         => /\ last'.raised = "none"
            /\ pc' = pc
            /\ (action = "start" /\ c \notin DOMAIN info_store)
               => \A j \in 1..Len(Hosts(c)) :
                     EntryValid(c, j) =>
                        \E k \in 1..Len(last'.reg_calls) :
                            last'.reg_calls[k].name
                               = EntryInfo(c, j).info.name]_vars

\* C10: die processing raises nothing, and removes the container id from
\* info_store when it had an entry, also when unregister fails
C10_DieNeverRaises ==
    [][\A c \in ContainerIds :
         Processed(c, "die")
         => /\ last'.exc = "none"
            /\ last'.raised = "none"
            /\ c \notin DOMAIN info_store']_vars

\* __main__ has left the with block on a signal: no handler raised and
\* __enter__ had succeeded
SignalShutdown ==
    /\ pc = "terminated"
    /\ last.raised = "none"
    /\ critical = << >>

\* C11 as stated: on signal driven shutdown every handle of info_store has
\* been unregistered and removed, info_store being empty when the announcer
\* is released
C11_TeardownEmptiesStore ==
    (SignalShutdown /\ zeroconf = "deleted") => info_store = << >>

\* C11 as amended: on signal driven shutdown __exit__ closes the announcer,
\* and with the close no record is held registered any more
C11_CloseWithdrawsAll ==
    SignalShutdown
    => /\ zeroconf = "deleted"
       /\ zc_closed = 1
       /\ registered = {}
       /\ exit_exc = "none"

\* a signal ended run() while a container's record was outstanding
C11_Witness ==
    /\ SignalShutdown
    /\ info_store # << >>
    /\ \E c \in DOMAIN info_store : info_store[c] \in last.pre_registered
                                       \/ info_store[c] \in Range(last.reg_calls)
    /\ registered = {}

\* C12: __exit__ never raises and the announcer is closed at most once,
\* however often and in whatever state of the watcher __exit__ is invoked
C12_ExitOnceNeverRaises ==
    /\ exit_exc = "none"
    /\ zc_closed <= 1

\* C13: when the process has terminated, every Zeroconf instance __enter__
\* opened has been closed
C13_AllAnnouncersClosed ==
    pc = "terminated" => zc_closed = zc_opened

\* ADAPTERS names an interface the host does not have
BadAdapter == \E i \in 1..Len(adapters) : adapters[i] = "nonexistent"

C14_EventsDelivered ==
    [][/\ containers' # containers /\ ~EnumHandled => pc = "opened"
       /\ pc = "stream" => containers' = containers /\ pc' # "enum"
       /\ events' # events
          => \/ EventHandled
             \/ /\ Len(events') = Len(events) + 1
                /\ SubSeq(events', 1, Len(events)) = events
       /\ pc' = "terminated"
          => \A i \in 1..Len(events') : ~Relevant(events'[i])]_vars

\* entry i of the container's label as the host name the label gives
EntryHost(c, i) == rstrip_dot(Hosts(c)[i].host)

\* a label of the name, in its ASCII form, violates the hostname syntax
SyntaxViolation(c, i) ==
    \E k \in 1..Len(EntryHost(c, i)) :
        ~allowed_match(Punycode(EntryHost(c, i)[k]))

\* the name does not end in .local
NotLocalDomain(c, i) == Last(EntryHost(c, i)) # L_local \/ Len(EntryHost(c, i)) < 2

\* no explicit service type and a port the well-known table does not have
UnknownPort(c, i) ==
    /\ "mdns.servicetype" \notin DOMAIN labels[c]
    /\ EntryPort(Hosts(c)[i]).val \notin DOMAIN well_known_port_name

FailsValidation(c, i) ==
    SyntaxViolation(c, i) \/ NotLocalDomain(c, i) \/ UnknownPort(c, i)

\* C16: a publish attempt, made by start processing for the first entry of a
\* container that is not in info_store, that fails validation raises
\* IgnoredError, calls register not at all and leaves info_store as it is
C16_ValidationIgnored ==
    [][\A c \in ContainerIds :
         (Processed(c, "start") /\ c \notin DOMAIN info_store /\ TxtParses(c)
            /\ Hosts(c) # << >> /\ EntryParses(c, 1) /\ FailsValidation(c, 1))
         => /\ last'.exc = "IgnoredError"
            /\ last'.reg_calls = << >>
            /\ info_store' = info_store]_vars

\* the first entry of the container's label is valid and its service name is
\* held by the announcer
Collides(c) ==
    /\ TxtParses(c)
    /\ Hosts(c) # << >>
    /\ EntryValid(c, 1)
    /\ \E r \in registered : r.name = EntryInfo(c, 1).info.name

TxtInput == labels["c1"]["mdns.txt"]

\* the label with the bare entry i written as 'key='
WithEquals(i) == [TxtInput EXCEPT ![i] = <<TxtInput[i][1], << >> >>]

\* entry i is the last one of the label with its key
LastOfKey(i) ==
    \A j \in (i + 1)..Len(TxtInput) : TxtInput[j][1] # TxtInput[i][1]

\* C18: make_dict raises for no label text, gives a key for every entry that
\* is not blank and for no other, and gives an entry without '=' a value that
\* differs from the one 'key=' gives
C18_TxtParsing ==
    pc = "txt_done"
    => /\ result.exc = "none"
       /\ DOMAIN result.dict =
             {TxtInput[i][1] : i \in {j \in 1..Len(TxtInput) :
                                         ~IsBlank(TxtInput[j])}}
       /\ \A i \in 1..Len(TxtInput) :
             (Len(TxtInput[i]) = 1 /\ ~IsBlank(TxtInput[i]) /\ LastOfKey(i))
             => make_dict(WithEquals(i)).dict[TxtInput[i][1]]
                   # result.dict[TxtInput[i][1]]

\* C19: every record start processing has passed to register has a port in
\* 1..65535
C19_PortInRange ==
    \A i \in 1..Len(last.reg_calls) : last.reg_calls[i].port \in 1..65535

\* C20: start or die processing of a container without an mdns.publish label
\* raises nothing, calls neither register nor unregister and leaves
\* info_store as it is
C20_NoLabelNoEffect ==
    [][\A c \in ContainerIds : \A action \in {"start", "die"} :
         (Processed(c, action) /\ "mdns.publish" \notin DOMAIN labels[c])
         => /\ last'.exc = "none"
            /\ last'.raised = "none"
            /\ last'.reg_calls = << >>
            /\ last'.unreg_calls = << >>
            /\ info_store' = info_store]_vars

\* the handles an info_store holds
Stored(store) == {store[c] : c \in DOMAIN store}

\* C21: a handle enters info_store only in a step whose register call for
\* it succeeded, a refused register leaves info_store as it is, die
\* processing that calls unregister has removed the container id also when
\* the announcer fails, and so no handle info_store holds has been passed to
\* unregister and, while the announcer is open, each is registered
C21_StoreFollowsAnnouncer ==
    [][/\ \A c \in DOMAIN info_store' :
             \/ /\ c \in DOMAIN info_store
                /\ info_store'[c] = info_store[c]
             \/ /\ EnumHandled \/ EventHandled
                /\ last'.cid = c
                /\ info_store'[c] \in Range(last'.reg_calls)
                /\ info_store'[c] \in last'.post_registered
                /\ info_store'[c] \notin registered
       /\ (EnumHandled \/ EventHandled)
          => /\ \A i \in 1..Len(last'.reg_calls) :
                   last'.reg_calls[i] \notin last'.post_registered
                   => info_store' = info_store
             /\ \A i \in 1..Len(last'.unreg_calls) :
                   /\ last'.unreg_calls[i] \in Stored(info_store)
                   /\ last'.unreg_calls[i] \notin Stored(info_store')
       /\ zeroconf' = "open" => Stored(info_store') \subseteq registered']_vars

\* a die whose unregister call the announcer failed has removed the
\* container id all the same, while another container's handle stays
\* stored and registered
C21_Witness ==
    /\ pc = "stream"
    /\ last.ran
    /\ last.action = "die"
    /\ last.fault
    /\ Len(last.unreg_calls) = 1
    /\ last.cid \notin DOMAIN info_store
    /\ last.unreg_calls[1] \in registered
    /\ info_store # << >>

\* C22: die processing passes to unregister nothing but the handle
\* info_store holds for the container id, once, and drops it from info_store
\* with the call; start processing calls unregister not at all; and a handle
\* info_store holds is the very record a successful register call was given,
\* an object of its own that no other container id is stored with
C22_UnregisterStoredHandle ==
    [][/\ \A c \in ContainerIds :
             /\ Processed(c, "die")
                => /\ last'.unreg_calls =
                         IF c \in DOMAIN info_store
                         THEN <<info_store[c]>>
                         ELSE << >>
                   /\ c \notin DOMAIN info_store'
                   /\ last'.reg_calls = << >>
                   /\ \A d \in DOMAIN info_store' :
                         /\ d \in DOMAIN info_store
                         /\ info_store'[d] = info_store[d]
                         /\ c \in DOMAIN info_store
                            => info_store'[d] # info_store[c]
             /\ Processed(c, "start")
                => /\ last'.unreg_calls = << >>
                   /\ c \in DOMAIN info_store' /\ c \notin DOMAIN info_store
                      => /\ info_store'[c] = last'.reg_calls[1]
                         /\ info_store'[c].id = nextId
                         /\ nextId' = nextId + 1
       /\ \A c \in DOMAIN info_store : info_store[c].id < nextId
       /\ \A c, d \in DOMAIN info_store :
             info_store[c].id = info_store[d].id => c = d]_vars

\* a container was registered, withdrawn with the stored handle, registered
\* again under a new handle and withdrawn with that one
C22_Witness ==
    /\ last.ran
    /\ last.action = "die"
    /\ ~last.fault
    /\ Len(last.unreg_calls) = 1
    /\ last.unreg_calls[1] = last.pre_store[last.cid]
    /\ last.unreg_calls[1].id >= 1
    /\ last.unreg_calls[1] \notin registered
    /\ last.prev.ran
    /\ last.prev.action = "start"
    /\ last.prev.cid = last.cid
    /\ last.prev.exc = "none"

\* C23: for an event whose type is not 'container' or whose action is
\* neither 'start' nor 'die', process_event looks no container up, calls
\* neither register nor unregister, raises and logs nothing and leaves
\* info_store and the registered records as they are
C23_OtherEventsIgnored ==
    [][(EventHandled
          /\ ~(Head(events).Type = "container"
                 /\ Head(events).Action \in {"start", "die"}))
       => /\ ~last'.lookup
          /\ ~last'.ran
          /\ last'.reg_calls = << >>
          /\ last'.unreg_calls = << >>
          /\ last'.exc = "none"
          /\ last'.raised = "none"
          /\ last'.logged = << >>
          /\ info_store' = info_store
          /\ registered' = registered
          /\ pc' = "stream"]_vars

\* process_event was handed a start event of type network for a container
\* that is not registered and whose label could be, and did nothing
C23_Witness ==
    /\ pc = "stream"
    /\ last.op = "event"
    /\ last.action = "start"
    /\ ~last.ran
    /\ ~last.lookup
    /\ last.exc = "none"
    /\ cstate[last.cid] = "running"
    /\ last.cid \notin DOMAIN info_store
    /\ Len(Hosts(last.cid)) = 1
    /\ EntryValid(last.cid, 1)
    /\ registered = {}

\* c is the one container that carries labels, among them mdns.publish
OnlyLabelled(c) ==
    /\ "mdns.publish" \in DOMAIN labels[c]
    /\ \A d \in ContainerIds \ {c} : labels[d] = << >>

\* C24: with one labelled container and no signal arriving, the daemon
\* never stops, the announcer never holds two records of one name, and when
\* the enumeration is over and no event is pending the container id is in
\* info_store exactly when the container is running
C24_WindowTolerated ==
    \A c \in ContainerIds :
        OnlyLabelled(c)
        => /\ pc # "terminated"
           /\ \A r1, r2 \in registered : r1.name = r2.name => r1 = r2
           /\ (pc = "stream" /\ events = << >>)
              => (c \in DOMAIN info_store <=> cstate[c] = "running")

====
